---- MODULE Spec2Model ----
(***************************************************************************)
(* Model of mdb-lookup-server.c: a single-threaded TCP server that, for    *)
(* each accepted connection, loads a file of fixed-size records into a     *)
(* list, then answers newline-terminated substring queries until the       *)
(* client's input ends.                                                    *)
(*                                                                         *)
(* Text is modelled as sequences of one-character strings.  A C string is  *)
(* the part of a buffer before its first NUL byte.                         *)
(***************************************************************************)
EXTENDS Integers, Sequences, FiniteSets, TLC

(***************************************************************************)
(* Program constants                                                       *)
(***************************************************************************)
MAX_CONNECTIONS == 5
MAX_KEY_LENGTH == 5
QueryLineSize == 1000
ResultBufferSize == 1000
NameSize == 50
MsgSize == 200
RecordSize == NameSize + MsgSize

(***************************************************************************)
(* Bounds of the model                                                     *)
(***************************************************************************)
MaxClients == 2
MaxLines == 2

NL == "\n"
NUL == "NUL"

(***************************************************************************)
(* C string helpers                                                        *)
(***************************************************************************)
Min(a, b) == IF a < b THEN a ELSE b

Take(s, n) == SubSeq(s, 1, Min(n, Len(s)))

Rep(c, n) == [i \in 1..n |-> c]

\* strlen(): the number of bytes before the first NUL of a buffer
StrLen(buf) ==
  IF \E i \in 1..Len(buf) : buf[i] = NUL
  THEN (CHOOSE i \in 1..Len(buf) :
          buf[i] = NUL /\ \A j \in 1..(i - 1) : buf[j] # NUL) - 1
  ELSE Len(buf)

CStr(buf) == SubSeq(buf, 1, StrLen(buf))

\* strstr(haystack, needle) != NULL, on C strings
StrStrNonEmpty(haystack, needle) ==
  /\ needle # <<>>
  /\ \E i \in 0..(Len(haystack) - Len(needle)) :
        SubSeq(haystack, i + 1, i + Len(needle)) = needle

StrStrPrefix(haystack, needle) ==
  Len(needle) <= Len(haystack) /\ SubSeq(haystack, 1, Len(needle)) = needle

StrStr(haystack, needle) ==
  \E i \in 0..(Len(haystack) - Len(needle)) :
     SubSeq(haystack, i + 1, i + Len(needle)) = needle


(***************************************************************************)
(* Key extraction, lines 150-155                                           *)
(***************************************************************************)
\* strncpy(searchKey, queryLine, sizeof(searchKey) - 1); searchKey[5] = '\0':
\* the six bytes of the key buffer afterwards
KeyCopy(old, line) ==
  LET s == CStr(Take(line, MAX_KEY_LENGTH))
  IN  s \o Rep(NUL, MAX_KEY_LENGTH - Len(s)) \o <<NUL>>

\* size_t lastChar = strlen(searchKey) - 1, as a C index (-1: wrapped around)
LastChar(buf) == StrLen(buf) - 1

\* a key extraction that leaves the newline in the key
StripNewlineNever(buf) == buf

\* if (searchKey[lastChar] == '\n') searchKey[lastChar] = '\0';
StripNewline(buf) ==
  LET i == LastChar(buf)
  IN  IF i \in 0..MAX_KEY_LENGTH /\ buf[i + 1] = NL
      THEN [buf EXCEPT ![i + 1] = NUL]
      ELSE buf

\* where lines 154-155 reach: with an empty key lastChar wraps around to
\* SIZE_MAX and searchKey[lastChar] is the byte in front of the buffer, whose
\* value is not the program's to know: it is read, and if it happens to be a
\* newline a NUL is stored over it
StripAccess(buf) ==
  IF LastChar(buf) \in 0..MAX_KEY_LENGTH THEN {"none"} ELSE {"read", "write"}

(***************************************************************************)
(* Records, struct MdbRec { char name[50]; char msg[200]; }                *)
(* A field is held as its bytes before the first NUL; a field that fills   *)
(* its array has no terminator, and the C string runs on into what follows.*)
(***************************************************************************)
VARIABLE
  spill         \* how many bytes other than NUL lie in memory behind the copy
                \* of a record whose msg field has no terminator

\* what the allocator can leave behind a 250-byte block: a NUL at once, or a
\* few bytes of padding first
SpillLens == {0, 3}

\* "?" bytes are bytes outside the record
MsgStr(rec) ==
  IF Len(rec.msg) < MsgSize THEN rec.msg ELSE rec.msg \o Rep("?", spill)

NameStr(rec) ==
  IF Len(rec.name) < NameSize THEN rec.name ELSE rec.name \o MsgStr(rec)

WellFormed(rec) == Len(rec.name) < NameSize /\ Len(rec.msg) < MsgSize

\* line 163: strstr(name, key) || strstr(msg, key)
MatchesNameOnly(rec, key) == StrStr(NameStr(rec), key)

Matches(rec, key) == StrStr(NameStr(rec), key) \/ StrStr(MsgStr(rec), key)

(***************************************************************************)
(* Result formatting, line 166: "%4d: {%s} said {%s}\n"                    *)
(***************************************************************************)
DigitChars == <<"0", "1", "2", "3", "4", "5", "6", "7", "8", "9">>

RECURSIVE DecDigits(_)
DecDigits(n) ==
  IF n < 10 THEN <<DigitChars[n + 1]>>
  ELSE DecDigits(n \div 10) \o <<DigitChars[(n % 10) + 1]>>

\* %4d of a non-negative int: right-justified in a field of width 4
Pad4(n) ==
  LET d == DecDigits(n)
  IN  IF Len(d) >= 4 THEN d ELSE Rep(" ", 4 - Len(d)) \o d

ResultLineNoNewline(count, rec) ==
  Pad4(count) \o <<":", " ", "{">> \o NameStr(rec)
     \o <<"}", " ", "s", "a", "i", "d", " ", "{">> \o MsgStr(rec)
     \o <<"}">>

ResultLine(count, rec) ==
  Pad4(count) \o <<":", " ", "{">> \o NameStr(rec)
     \o <<"}", " ", "s", "a", "i", "d", " ", "{">> \o MsgStr(rec)
     \o <<"}", NL>>

BlankLine == <<NL>>

(***************************************************************************)
(* Line reader, line 148: fgets(queryLine, sizeof(queryLine), clientInput) *)
(***************************************************************************)
HasNewline(s) == \E i \in 1..Len(s) : s[i] = NL

FirstNewline(s) == CHOOSE i \in 1..Len(s) : s[i] = NL /\ \A j \in 1..(i - 1) : s[j] # NL

\* the number of bytes fgets stores from a stream holding s
FgetsLen(s) ==
  LET window == Take(s, QueryLineSize - 1)
  IN  IF HasNewline(window) THEN FirstNewline(window) ELSE Len(window)


(***************************************************************************)
(* Database files and client lines the model draws from                    *)
(***************************************************************************)
Ramya == <<"R", "a", "m", "y", "a">>
HiThere == <<"h", "i", " ", "t", "h", "e", "r", "e">>
Alex == <<"A", "l", "e", "x">>
ByeNow == <<"b", "y", "e", " ", "n", "o", "w">>

RecRamya == [name |-> Ramya, msg |-> HiThere]
RecAlex == [name |-> Alex, msg |-> ByeNow]
\* a block whose name field has no terminator byte
RecRunOn == [name |-> Rep("x", NameSize - 2) \o <<"R", "a">>, msg |-> <<"m", "y", "a">>]

\* a block whose msg field has no terminator byte
RecNoEnd == [name |-> <<"N", "o">>, msg |-> Rep("m", MsgSize)]

\* a file: its complete 250-byte blocks, then `tail` further bytes
DbEmpty == [blocks |-> <<>>, tail |-> 0]
DbScenario == [blocks |-> <<RecRamya, RecAlex>>, tail |-> 0]
DbShortTail == [blocks |-> <<RecAlex>>, tail |-> 100]
DbRunOn == [blocks |-> <<RecRunOn>>, tail |-> 0]
DbNoEnd == [blocks |-> <<RecNoEnd>>, tail |-> 0]

DbFiles == {DbEmpty, DbScenario, DbShortTail, DbRunOn, DbNoEnd}

FileSize(f) == RecordSize * Len(f.blocks) + f.tail

\* a line with more bytes before its newline than fgets returns at once
LongLine == Rep("x", QueryLineSize) \o <<NL>>

\* a line whose first byte is NUL: the string fgets returns is empty
NulLine == <<NUL, NL>>

QueryLines ==
  { <<NL>>,
    Ramya \o <<NL>>,
    <<"a", NL>>,
    <<"e", NL>>,
    <<"n", "o", "w", NL>>,
    <<"z", "z", NL>>,
    Ramya \o <<"x", NL>>,
    LongLine,
    NulLine }

Clients == 1..MaxClients

\* "?" stands for a byte of an uninitialised buffer
Uninitialised(n) == Rep("?", n)

(***************************************************************************)
(* State                                                                   *)
(***************************************************************************)
VARIABLES
  pc,           \* where the server's single thread is
  exitCause,    \* why the process ended, "" while it runs
  dbFile,       \* the database file on disk
  fileOpen,     \* filePointer is open
  filePos,      \* its read position, in bytes
  sessionDb,    \* the file as it was when this session opened it
  recordList,   \* the linked list, head first
  heap,         \* record copies obtained from malloc() and not yet freed
  backlog,      \* connections the kernel completed, not yet accepted
  clientSocket, \* the accepted connection
  openSockets,  \* accepted connections not yet closed by the server
  cstate,       \* each client: "idle", "open", "halfclosed", "gone"
  pending,      \* each connection: lines the client sent that fgets has
                \* not begun to read (their bytes are drawn when it does)
  unread,       \* bytes of the line being read that fgets has not returned
  nsent,        \* lines the clients have sent so far
  gotReply,     \* each client: has received bytes from the server
  queryLine,    \* the string fgets returned
  searchKey,    \* the six-byte key buffer
  oob,          \* what the newline strip of the query in hand touched outside
                \* the key buffer: "none", "read" (a byte read) or "write"
                \* (a byte read and a NUL stored)
  currentNode,  \* position of the scan in recordList
  recordCount,  \* the running counter printed as the ordinal
  nqueries,     \* lines fgets has returned in this session
  resp          \* the query in hand: the line read, the send() calls made for
                \* it (idx: the node a result line is for, 0 for the blank
                \* line) and whether its handling is over

vars ==
  <<pc, exitCause, dbFile, fileOpen, filePos, sessionDb, recordList, heap, spill, backlog,
    clientSocket, openSockets, cstate, pending, unread, nsent, gotReply, queryLine,
    searchKey, oob, currentNode, recordCount, nqueries, resp>>

serverVars ==
  <<pc, exitCause, fileOpen, filePos, sessionDb, recordList, heap, spill, clientSocket,
    openSockets, queryLine, searchKey, oob, currentNode, recordCount, nqueries,
    resp>>

clientVars == <<cstate, nsent>>

NoResp == [line |-> <<>>, sends |-> <<>>, done |-> FALSE]

\* lines 47-49: signal(SIGPIPE, SIG_IGN)
SigpipeDefault == FALSE

SigpipeIgnored == TRUE

Init ==
  /\ pc = "accept"
  /\ exitCause = ""
  /\ dbFile \in DbFiles
  /\ fileOpen = FALSE
  /\ filePos = 0
  /\ sessionDb = DbEmpty
  /\ recordList = <<>>
  /\ heap = 0
  /\ spill = 0
  /\ backlog = <<>>
  /\ clientSocket = 0
  /\ openSockets = {}
  /\ cstate = [c \in Clients |-> "idle"]
  /\ pending = [c \in Clients |-> 0]
  /\ unread = <<>>
  /\ nsent = 0
  /\ gotReply = [c \in Clients |-> FALSE]
  /\ queryLine = <<>>
  /\ searchKey = Uninitialised(MAX_KEY_LENGTH + 1)
  /\ oob = "none"
  /\ currentNode = 0
  /\ recordCount = 0
  /\ nqueries = 0
  /\ resp = NoResp

\* a terminate() that reports the failure and returns to its caller, which
\* carries on: the accept loop with its next round, a session with its queries
terminateReturns(cause) ==
  /\ pc' = IF pc = "accept" THEN "accept" ELSE "fgets"
  /\ exitCause' = cause

\* static void terminate(const char *message): perror, exit(1)
terminate(cause) ==
  /\ pc' = "exited"
  /\ exitCause' = cause


(***************************************************************************)
(* The clients and the file system                                         *)
(***************************************************************************)
Connected(c) == c \in openSockets \/ \E i \in 1..Len(backlog) : backlog[i] = c

\* connect(): the kernel completes the handshake and queues the connection
ClientConnect(c) ==
  /\ pc \notin {"exited", "killed"}
  /\ cstate[c] = "idle"
  /\ \A d \in Clients : d < c => cstate[d] # "idle"
  /\ Len(backlog) < MAX_CONNECTIONS
  /\ cstate' = [cstate EXCEPT ![c] = "open"]
  /\ backlog' = Append(backlog, c)
  /\ UNCHANGED <<serverVars, dbFile, pending, unread, nsent, gotReply>>

\* the client writes one line
ClientSend(c) ==
  /\ pc \notin {"exited", "killed"}
  /\ cstate[c] = "open"
  /\ Connected(c)
  /\ nsent < MaxLines
  /\ pending' = [pending EXCEPT ![c] = @ + 1]
  /\ UNCHANGED unread
  /\ nsent' = nsent + 1
  /\ UNCHANGED <<serverVars, dbFile, backlog, cstate, gotReply>>

\* The server learns that a client has closed only from fgets() and send()
\* on the accepted socket: what a client does to a connection that still
\* waits in the queue is seen when that connection is served, and is taken
\* then.
Accepted(c) == c \in openSockets

\* the client closes its send side and keeps reading
ClientShutdown(c) ==
  /\ pc \notin {"exited", "killed"}
  /\ cstate[c] = "open"
  /\ Accepted(c)
  /\ cstate' = [cstate EXCEPT ![c] = "halfclosed"]
  /\ UNCHANGED <<serverVars, dbFile, backlog, pending, unread, nsent, gotReply>>

\* the client closes the connection: later writes to it can fail
ClientClose(c) ==
  /\ pc \notin {"exited", "killed"}
  /\ cstate[c] \in {"open", "halfclosed"}
  /\ Accepted(c)
  /\ cstate' = [cstate EXCEPT ![c] = "gone"]
  /\ UNCHANGED <<serverVars, dbFile, backlog, pending, unread, nsent, gotReply>>

\* the database file is replaced while the server does not have it open
ReplaceDb(f) ==
  /\ ~fileOpen
  /\ pc \notin {"exited", "killed"}
  /\ f # dbFile
  /\ dbFile' = f
  /\ UNCHANGED <<serverVars, backlog, pending, unread, gotReply, clientVars>>

(***************************************************************************)
(* main, lines 79-95                                                       *)
(***************************************************************************)
AcceptReadyAnytime == pc \in {"accept", "fgets"}

AcceptReady == pc = "accept"

\* accept() returns the first queued connection
Accept ==
  /\ AcceptReady
  /\ backlog # <<>>
  /\ clientSocket' = Head(backlog)
  /\ backlog' = Tail(backlog)
  /\ openSockets' = openSockets \cup {Head(backlog)}
  /\ pc' = "fopen"
  /\ UNCHANGED <<exitCause, dbFile, fileOpen, filePos, sessionDb, recordList, heap, spill,
                 pending, unread, gotReply, queryLine, searchKey, oob, currentNode,
                 recordCount, nqueries, resp, clientVars>>

AcceptFail ==
  /\ pc = "accept"
  /\ terminate("accept")
  /\ UNCHANGED <<dbFile, fileOpen, filePos, sessionDb, recordList, heap, spill, backlog,
                 clientSocket, openSockets, pending, unread, gotReply, queryLine,
                 searchKey, oob, currentNode, recordCount, nqueries, resp, clientVars>>

(***************************************************************************)
(* processClientRequest, lines 101-138: open and load the database         *)
(***************************************************************************)
\* initList(&recordList)
initList(list) == <<>>

\* addAfter(&recordList, node, recordCopy), node being the last node added
addAfter(list, rec) == Append(list, rec)

OpenDb ==
  /\ pc = "fopen"
  /\ fileOpen' = TRUE
  /\ filePos' = 0
  /\ sessionDb' = dbFile
  /\ recordList' = initList(recordList)
  /\ pc' = "fread"
  /\ UNCHANGED <<exitCause, heap, spill, dbFile, backlog, clientSocket, openSockets, pending, unread,
                 gotReply, queryLine, searchKey, oob, currentNode, recordCount, nqueries,
                 resp, clientVars>>

OpenDbFail ==
  /\ pc = "fopen"
  /\ terminate("fopen")
  /\ UNCHANGED <<dbFile, fileOpen, filePos, sessionDb, recordList, heap, spill, backlog,
                 clientSocket, openSockets, pending, unread, gotReply, queryLine,
                 searchKey, oob, currentNode, recordCount, nqueries, resp, clientVars>>

\* a loader that takes the last whole block of the file for the end of file
FreadOneButLast == FileSize(sessionDb) - filePos > RecordSize

\* fread(&record, sizeof(record), 1, filePointer) == 1
FreadOne == FileSize(sessionDb) - filePos >= RecordSize

BlockAt(pos) == sessionDb.blocks[(pos \div RecordSize) + 1]

\* malloc(sizeof(struct MdbRec)) returning a block
malloc(h) == h + 1

LoadRecord ==
  /\ pc = "fread"
  /\ FreadOne
  /\ heap' = malloc(heap)
  /\ spill' \in IF Len(BlockAt(filePos).msg) < MsgSize THEN {spill} ELSE SpillLens
  /\ recordList' = addAfter(recordList, BlockAt(filePos))
  /\ filePos' = filePos + RecordSize
  /\ UNCHANGED <<pc, exitCause, dbFile, fileOpen, sessionDb, backlog,
                 clientSocket, openSockets, pending, unread, gotReply, queryLine,
                 searchKey, oob, currentNode, recordCount, nqueries, resp, clientVars>>

\* malloc() or addAfter() returns NULL
LoadAllocFail ==
  /\ pc = "fread"
  /\ FreadOne
  /\ terminate("malloc")
  /\ UNCHANGED <<dbFile, fileOpen, filePos, sessionDb, recordList, heap, spill, backlog,
                 clientSocket, openSockets, pending, unread, gotReply, queryLine,
                 searchKey, oob, currentNode, recordCount, nqueries, resp, clientVars>>

\* fread() returns 0 with the error indicator set
LoadReadError ==
  /\ pc = "fread"
  /\ terminate("fread")
  /\ UNCHANGED <<dbFile, fileOpen, filePos, sessionDb, recordList, heap, spill, backlog,
                 clientSocket, openSockets, pending, unread, gotReply, queryLine,
                 searchKey, oob, currentNode, recordCount, nqueries, resp, clientVars>>

\* fread() returns 0 at end of file (a short final block included);
\* ferror() is false and fdopen() succeeds
LoadDone ==
  /\ pc = "fread"
  /\ ~FreadOne
  /\ filePos' = FileSize(sessionDb)
  /\ pc' = "fgets"
  /\ UNCHANGED <<exitCause, dbFile, fileOpen, sessionDb, recordList, heap, spill, backlog,
                 clientSocket, openSockets, pending, unread, gotReply, queryLine,
                 searchKey, oob, currentNode, recordCount, nqueries, resp, clientVars>>

FdopenFail ==
  /\ pc = "fread"
  /\ ~FreadOne
  /\ terminate("fdopen")
  /\ UNCHANGED <<dbFile, fileOpen, filePos, sessionDb, recordList, heap, spill, backlog,
                 clientSocket, openSockets, pending, unread, gotReply, queryLine,
                 searchKey, oob, currentNode, recordCount, nqueries, resp, clientVars>>


(***************************************************************************)
(* processClientRequest, lines 147-181: the query loop                     *)
(***************************************************************************)
\* a read that gives up on a client that is connected and silent
InputEndedOrTimedOut(c) == TRUE

InputEnded(c) == cstate[c] \in {"halfclosed", "gone"}

\* fgets() returns once a whole line, a full buffer or the end of input is there
FgetsReady(c) == unread # <<>> \/ pending[c] > 0

\* the bytes fgets reads from: the rest of the line in hand, else the next line
Stream(c) == IF unread # <<>> THEN {unread} ELSE QueryLines

\* int recordCount = 1
FirstCountCarried == IF nqueries = 0 THEN 1 ELSE recordCount

FirstCount == 1

\* lines 148-159: read a line, extract the key, start the scan at the head
ReadQuery ==
  /\ pc = "fgets"
  /\ FgetsReady(clientSocket)
  /\ \E s \in Stream(clientSocket) :
       LET n == FgetsLen(s)
           line == Take(s, n)
       IN  /\ queryLine' = line
           /\ unread' = SubSeq(s, n + 1, Len(s))
           /\ pending' = IF unread # <<>> THEN pending
                         ELSE [pending EXCEPT ![clientSocket] = @ - 1]
           /\ searchKey' = StripNewline(KeyCopy(searchKey, line))
           /\ oob' \in StripAccess(KeyCopy(searchKey, line))
           /\ resp' = [line |-> line, sends |-> <<>>, done |-> FALSE]
  /\ currentNode' = 1
  /\ recordCount' = FirstCount
  /\ nqueries' = nqueries + 1
  /\ pc' = IF recordList = <<>> THEN "blank" ELSE "scan"
  /\ UNCHANGED <<exitCause, dbFile, fileOpen, filePos, sessionDb, recordList, heap, spill,
                 backlog, clientSocket, openSockets, gotReply, clientVars>>

\* fgets() returns NULL at end of input
ReadEof ==
  /\ pc = "fgets"
  /\ ~FgetsReady(clientSocket)
  /\ InputEnded(clientSocket)
  /\ pc' = "cleanup"
  /\ UNCHANGED <<exitCause, dbFile, fileOpen, filePos, sessionDb, recordList, heap, spill,
                 backlog, clientSocket, openSockets, pending, unread, gotReply,
                 queryLine, searchKey, oob, currentNode, recordCount, nqueries, resp,
                 clientVars>>

\* fgets() returns NULL on a read error (connection reset); lines 184-185
ReadError ==
  /\ pc = "fgets"
  /\ cstate[clientSocket] = "gone"
  /\ pending' = [pending EXCEPT ![clientSocket] = 0]
  /\ unread' = <<>>
  /\ pc' = "cleanup"
  /\ UNCHANGED <<exitCause, dbFile, fileOpen, filePos, sessionDb, recordList, heap, spill,
                 backlog, clientSocket, openSockets, gotReply, queryLine,
                 searchKey, oob, currentNode, recordCount, nqueries, resp, clientVars>>

\* what send() can return: the whole length ("ok"), fewer bytes ("short"),
\* -1 ("fail"), or -1 with SIGPIPE raised ("epipe")
SendOutcomes(c) ==
  IF cstate[c] = "gone" THEN {"ok", "short", "fail", "epipe"} ELSE {"ok"}

BlankOutcomes(c) ==
  IF cstate[c] = "gone" THEN {"ok", "fail", "epipe"} ELSE {"ok"}

Delivers(o) == o \in {"ok", "short"}

\* recordCount++ at the end of every iteration
NextCountOnMatch(count, matched) == IF matched THEN count + 1 ELSE count

NextCount(count, matched) == count + 1

\* lines 160-175: one iteration of the scan
ScanRecord ==
  /\ pc = "scan"
  /\ LET rec == recordList[currentNode]
         matched == Matches(rec, CStr(searchKey))
         advance ==
           /\ currentNode' = currentNode + 1
           /\ recordCount' = NextCount(recordCount, matched)
           /\ pc' = IF currentNode + 1 > Len(recordList) THEN "blank" ELSE "scan"
           /\ UNCHANGED exitCause
     IN  IF matched
         THEN \E o \in SendOutcomes(clientSocket) :
                /\ resp' = [resp EXCEPT !.sends =
                              Append(@, [idx |-> currentNode,
                                         data |-> ResultLine(recordCount, rec),
                                         res |-> o])]
                /\ gotReply' = [gotReply EXCEPT ![clientSocket] = @ \/ Delivers(o)]
                /\ IF o = "epipe" /\ ~SigpipeIgnored
                   THEN /\ pc' = "killed"
                        /\ exitCause' = "SIGPIPE"
                        /\ UNCHANGED <<currentNode, recordCount>>
                   ELSE IF o # "ok"
                   THEN /\ pc' = "blank"
                        /\ UNCHANGED <<exitCause, currentNode, recordCount>>
                   ELSE advance
         ELSE advance /\ UNCHANGED <<resp, gotReply>>
  /\ UNCHANGED <<dbFile, fileOpen, filePos, sessionDb, recordList, heap, spill, backlog,
                 clientSocket, openSockets, pending, unread, queryLine,
                 searchKey, oob, nqueries, clientVars>>

\* lines 177-180: the blank line that ends the results
SendBlank ==
  /\ pc = "blank"
  /\ \E o \in BlankOutcomes(clientSocket) :
       /\ resp' = [resp EXCEPT !.sends =
                     Append(@, [idx |-> 0, data |-> BlankLine, res |-> o]),
                                !.done = TRUE]
       /\ gotReply' = [gotReply EXCEPT ![clientSocket] = @ \/ Delivers(o)]
       /\ IF o = "epipe" /\ ~SigpipeIgnored
          THEN pc' = "killed" /\ exitCause' = "SIGPIPE"
          ELSE pc' = "fgets" /\ UNCHANGED exitCause
  /\ UNCHANGED <<dbFile, fileOpen, filePos, sessionDb, recordList, heap, spill, backlog,
                 clientSocket, openSockets, pending, unread, queryLine, searchKey, oob,
                 currentNode, recordCount, nqueries, clientVars>>

\* removeAllNodes(&recordList), after traverseList(&recordList, &free)
removeAllNodes(list) == <<>>

\* a cleanup that drops the nodes and leaves the records they point to
traverseListNoFree(list, h) == h

\* traverseList(&recordList, &free): free() on the record of every node
traverseListFree(list, h) == h - Len(list)

\* lines 183-194 and line 94: release the list, close the file and the socket
Cleanup ==
  /\ pc = "cleanup"
  /\ heap' = traverseListFree(recordList, heap)
  /\ spill' = 0
  /\ recordList' = removeAllNodes(recordList)
  /\ fileOpen' = FALSE
  /\ openSockets' = openSockets \ {clientSocket}
  /\ filePos' = 0
  /\ sessionDb' = DbEmpty
  /\ queryLine' = <<>>
  /\ searchKey' = Uninitialised(MAX_KEY_LENGTH + 1)
  /\ oob' = "none"
  /\ currentNode' = 0
  /\ recordCount' = 0
  /\ nqueries' = 0
  /\ resp' = NoResp
  /\ pc' = "accept"
  /\ UNCHANGED <<exitCause, dbFile, backlog, clientSocket, pending, unread, gotReply,
                 clientVars>>

(***************************************************************************)
(* Specification                                                           *)
(***************************************************************************)
Server ==
  \/ Accept
  \/ AcceptFail
  \/ OpenDb
  \/ OpenDbFail
  \/ LoadRecord
  \/ LoadAllocFail
  \/ LoadReadError
  \/ LoadDone
  \/ FdopenFail
  \/ ReadEof
  \/ ReadError
  \/ ReadQuery
  \/ ScanRecord
  \/ SendBlank
  \/ Cleanup

Environment ==
  \/ \E c \in Clients : ClientConnect(c)
  \/ \E c \in Clients : ClientSend(c)
  \/ \E c \in Clients : ClientShutdown(c)
  \/ \E c \in Clients : ClientClose(c)
  \/ \E f \in DbFiles : ReplaceDb(f)

Next == Server \/ Environment

Spec == Init /\ [][Next]_vars


(***************************************************************************)
(* Vocabulary of the properties                                            *)
(***************************************************************************)
Sends == resp.sends

\* every send() made for the query in hand returned the whole length
AllOk == \A i \in 1..Len(Sends) : Sends[i].res = "ok"

\* the query in hand has been handled to its end and all of it was delivered
Answered == resp.done /\ AllOk

RECURSIVE Flatten(_)
Flatten(ss) == IF ss = <<>> THEN <<>> ELSE Head(ss).data \o Flatten(Tail(ss))

\* the bytes the client receives for the query in hand when all sends succeed
Delivered == Flatten(Sends)

\* one line of text with something on it: a single newline, at the end
IsResultText(d) ==
  /\ Len(d) >= 2
  /\ d[Len(d)] = NL
  /\ \A j \in 1..(Len(d) - 1) : d[j] # NL

\* the query a line carries: the string fgets returned, without its newline
QueryText(line) ==
  LET str == CStr(line)
  IN  IF str # <<>> /\ str[Len(str)] = NL THEN SubSeq(str, 1, Len(str) - 1)
      ELSE str

IsSubstring(k, t) ==
  \E a \in 1..(Len(t) + 1) : \E b \in 0..Len(t) :
     b - a + 1 = Len(k) /\ SubSeq(t, a, b) = k

HasLineFor(i) == \E j \in 1..Len(Sends) : Sends[j].idx = i

ColonPos(d) == CHOOSE i \in 1..Len(d) : d[i] = ":" /\ \A j \in 1..(i - 1) : d[j] # ":"

DigitValue(ch) == CHOOSE v \in 0..9 : DigitChars[v + 1] = ch

RECURSIVE ParseDec(_)
ParseDec(ds) ==
  IF ds = <<>> THEN 0
  ELSE 10 * ParseDec(SubSeq(ds, 1, Len(ds) - 1)) + DigitValue(ds[Len(ds)])

NotSpace(ch) == ch # " "

\* the ordinal printed at the start of a result line
OrdinalOf(d) == ParseDec(SelectSeq(SubSeq(d, 1, ColonPos(d) - 1), NotSpace))

\* the text between the first "{" and the "}" of " said {" in a result line
NameOf(d, len) == SubSeq(d, ColonPos(d) + 3, ColonPos(d) + 2 + len)

(***************************************************************************)
(* C1: for every query line read, whatever the store holds, the session    *)
(* writes zero or more result lines and then exactly one blank line, which *)
(* is the last thing written for that query.  Stated on the send() calls   *)
(* of the query and, when they all succeed, on the bytes the client gets.  *)
(***************************************************************************)
C1_BlankLineEndsResponse ==
  /\ pc \in {"scan", "blank"} =>
       /\ ~resp.done
       /\ \A i \in 1..Len(Sends) : Sends[i].idx > 0 /\ IsResultText(Sends[i].data)
  /\ (pc \in {"fgets", "cleanup"} /\ nqueries > 0) => resp.done
  /\ resp.done =>
       /\ Len(Sends) >= 1
       /\ Sends[Len(Sends)].data = <<NL>>
       /\ \A i \in 1..(Len(Sends) - 1) : IsResultText(Sends[i].data)
  /\ Answered =>
       LET d == Delivered
           n == Len(d)
       IN  /\ n >= 1 /\ d[n] = NL
           /\ n > 1 => d[n - 1] = NL /\ d[1] # NL
           /\ \A j \in 1..(n - 2) : ~(d[j] = NL /\ d[j + 1] = NL)

C1_Witness == Answered /\ Len(Sends) = 3

(***************************************************************************)
(* C2 as claimed: for every record and every query of any length, the      *)
(* response has a result line for the record exactly when the query is a   *)
(* case-sensitive substring of its name or of its message.                 *)
(***************************************************************************)
C2_AnyLengthQuery ==
  Answered =>
    \A i \in 1..Len(recordList) :
      LET rec == recordList[i]
          q == QueryText(resp.line)
      IN  WellFormed(rec) =>
            (HasLineFor(i) <=> (IsSubstring(q, rec.name) \/ IsSubstring(q, rec.msg)))

(***************************************************************************)
(* C2 as amended: the response has a result line for a (terminated) record *)
(* exactly when the first MAX_KEY_LENGTH characters of the query are a     *)
(* case-sensitive substring of its name or of its message.                 *)
(***************************************************************************)
C2_TruncatedKeyMatch ==
  Answered =>
    \A i \in 1..Len(recordList) :
      LET rec == recordList[i]
          q == Take(QueryText(resp.line), MAX_KEY_LENGTH)
      IN  WellFormed(rec) =>
            (HasLineFor(i) <=> (IsSubstring(q, rec.name) \/ IsSubstring(q, rec.msg)))

C2_Witness ==
  /\ Answered
  /\ Len(QueryText(resp.line)) > MAX_KEY_LENGTH
  /\ \E i \in 1..Len(recordList) : WellFormed(recordList[i]) /\ HasLineFor(i)

(***************************************************************************)
(* C3: the ordinal printed on every result line is the 1-based position of *)
(* its record in the store, whatever matched before it, in every query of  *)
(* a session.                                                              *)
(***************************************************************************)
C3_OrdinalIsLoadPosition ==
  \A j \in 1..Len(Sends) :
    Sends[j].idx > 0 =>
      LET i == Sends[j].idx
          d == Sends[j].data
      IN  /\ i \in 1..Len(recordList)
          /\ i \in 1..Len(sessionDb.blocks)
          /\ OrdinalOf(d) = i
          /\ NameOf(d, Len(sessionDb.blocks[i].name)) = sessionDb.blocks[i].name

\* the second query of a session, whose first result line is for record 2
C3_Witness ==
  /\ nqueries = 2
  /\ Len(Sends) >= 1
  /\ Sends[1].idx = 2
  /\ OrdinalOf(Sends[1].data) = 2

(***************************************************************************)
(* C4: a file whose size is a multiple of 250 bytes loads as size/250      *)
(* records in file order, and a file with a short final block is refused:  *)
(* the session never reads or answers a query from such a file.            *)
(***************************************************************************)
C4_ShortBlockIsCorrupt ==
  pc \in {"fgets", "scan", "blank"} =>
    /\ FileSize(sessionDb) % RecordSize = 0
    /\ recordList = sessionDb.blocks
    /\ Len(recordList) = FileSize(sessionDb) \div RecordSize

(***************************************************************************)
(* C5: once a write to the client has failed, the session writes nothing   *)
(* more for that query and reads no further query: it goes to Closed.      *)
(* (The record of the query in hand changes only by a further send(), by   *)
(* the next line being read, or by the session's end.)                     *)
(***************************************************************************)
C5_WriteFailureCloses ==
  [][~AllOk => (resp' = resp \/ resp' = NoResp)]_vars


ProcessFatal == {"accept", "fopen", "malloc", "fread", "fdopen"}

InQueryLoop == pc \in {"fgets", "scan", "blank", "cleanup"}

InBacklog(c) == \E i \in 1..Len(backlog) : backlog[i] = c

\* how far the session is from its end once its client sends no more: the
\* lines still to read (a line leaves at most one rest behind, which counts
\* for less than a line), then the steps left in the query in hand
SessionRank ==
  (2 * pending[clientSocket] + (IF unread # <<>> THEN 1 ELSE 0))
       * (Len(recordList) + 3)
    + (CASE pc = "scan" -> 3 + Len(recordList) - currentNode
         [] pc = "blank" -> 2
         [] pc = "fgets" -> 1
         [] OTHER -> 0)

(***************************************************************************)
(* C6: what one client does (closing its send side, a read error on its    *)
(* socket, a failed write to it once it is gone) never ends the process    *)
(* and always ends the session: the process dies of no signal and exits    *)
(* for process-level failures only; a session in its query loop leaves it  *)
(* only for accept; and once the client's input has ended the server is    *)
(* never blocked and each of its steps brings the return to accept nearer. *)
(***************************************************************************)
C6_ClientFaultsContained ==
  /\ [](pc # "killed")
  /\ [](pc = "exited" => exitCause \in ProcessFatal)
  /\ []((InQueryLoop /\ InputEnded(clientSocket)) => ENABLED Server)
  /\ [][InQueryLoop =>
          /\ pc' \in {"fgets", "scan", "blank", "cleanup", "accept"}
          /\ InputEnded(clientSocket) =>
               \/ <<pc, currentNode>>' = <<pc, currentNode>>
               \/ pc' = "accept"
               \/ SessionRank' < SessionRank]_vars

\* a session ends after a write to its client raised SIGPIPE, with the next
\* connection waiting
C6_Witness ==
  /\ pc = "cleanup"
  /\ \E i \in 1..Len(Sends) : Sends[i].res = "epipe"
  /\ backlog # <<>>

(***************************************************************************)
(* C7: connections are served strictly one after the other: at most one    *)
(* accepted connection is open at any moment, accept is reached only with  *)
(* none open, and a client still waiting to be accepted has received       *)
(* nothing.                                                                *)
(***************************************************************************)
C7_StrictlySerial ==
  /\ Cardinality(openSockets) <= 1
  /\ pc = "accept" => openSockets = {}
  /\ (pc \in {"fopen", "fread"} \/ InQueryLoop) => openSockets = {clientSocket}
  /\ \A c \in Clients : (InBacklog(c) \/ cstate[c] = "idle") => ~gotReply[c]

\* a second client has connected and sent a query while the first is answered
C7_Witness ==
  /\ pc = "scan"
  /\ gotReply[clientSocket]
  /\ \E c \in Clients : InBacklog(c) /\ pending[c] > 0

(***************************************************************************)
(* C8: the response to a query is a function of the database file as it    *)
(* was at the session's start and of the query line alone, whatever        *)
(* earlier sessions and earlier queries of the session did.                *)
(***************************************************************************)
RECURSIVE MatchLines(_, _, _)
MatchLines(store, i, key) ==
  IF i > Len(store) THEN <<>>
  ELSE (IF Matches(store[i], key) THEN <<ResultLine(i, store[i])>> ELSE <<>>)
         \o MatchLines(store, i + 1, key)

\* the result lines a file and a line determine
ResultsFor(file, line) ==
  MatchLines(SubSeq(file.blocks, 1, FileSize(file) \div RecordSize), 1,
             CStr(StripNewline(KeyCopy(Uninitialised(MAX_KEY_LENGTH + 1), line))))

SentData == [j \in 1..Len(Sends) |-> Sends[j].data]

C8_ResponseDependsOnFileAndLineOnly ==
  nqueries > 0 =>
    LET want == ResultsFor(dbFile, resp.line)
    IN  /\ Answered => SentData = want \o <<BlankLine>>
        /\ ~resp.done => SentData = Take(want, Len(Sends))

\* the second client's query is answered in full after the first client's was
C8_Witness ==
  /\ Answered
  /\ clientSocket = 2
  /\ gotReply[1]
  /\ Len(Sends) >= 2

(***************************************************************************)
(* C9: a line holding only the newline yields a result line for every      *)
(* record of the store, in load order, then the blank line; with an empty  *)
(* database file every query yields the blank line alone.                  *)
(***************************************************************************)
C9_EmptyQueryAndEmptyDatabase ==
  /\ (Answered /\ resp.line = <<NL>>) =>
       /\ Len(Sends) = Len(sessionDb.blocks) + 1
       /\ \A i \in 1..Len(sessionDb.blocks) :
            /\ Sends[i].idx = i
            /\ OrdinalOf(Sends[i].data) = i
            /\ IsResultText(Sends[i].data)
       /\ Sends[Len(Sends)].data = <<NL>>
  /\ (Answered /\ FileSize(sessionDb) = 0) => Delivered = <<NL>>

C9_Witness == Answered /\ resp.line = <<NL>> /\ Len(Sends) = 3

(***************************************************************************)
(* C10 as claimed: with the database [("Ramya","hi there"), ("Alex","bye   *)
(* now")], the query "Ramya" yields one result line, ordinal 1 and name    *)
(* "Ramya", then the blank line; the query "a" yields one result line, for *)
(* record 2 with ordinal 2, then the blank line.                           *)
(***************************************************************************)
RamyaLine ==
  <<" ", " ", " ", "1", ":", " ", "{", "R", "a", "m", "y", "a", "}", " ",
    "s", "a", "i", "d", " ", "{", "h", "i", " ", "t", "h", "e", "r", "e",
    "}", NL>>

C10_ScenarioAsClaimed ==
  (Answered /\ sessionDb = DbScenario) =>
    /\ resp.line = <<"R", "a", "m", "y", "a", NL>> => SentData = <<RamyaLine, <<NL>>>>
    /\ resp.line = <<"a", NL>> =>
         /\ Len(Sends) = 2
         /\ Sends[1].idx = 2
         /\ OrdinalOf(Sends[1].data) = 2
         /\ Sends[2].data = <<NL>>

(***************************************************************************)
(* C10 as amended: the query "Ramya" yields one result line, ordinal 1 and *)
(* name "Ramya", then the blank line; the query "a" yields one result      *)
(* line, for record 1 with ordinal 1 ("Ramya" holds an "a"; "Alex" and     *)
(* "bye now" do not), then the blank line.                                 *)
(***************************************************************************)
C10_Scenario ==
  (Answered /\ sessionDb = DbScenario) =>
    /\ resp.line = <<"R", "a", "m", "y", "a", NL>> => SentData = <<RamyaLine, <<NL>>>>
    /\ resp.line = <<"a", NL>> =>
         /\ SentData = <<RamyaLine, <<NL>>>>
         /\ Sends[1].idx = 1

C10_Witness == Answered /\ sessionDb = DbScenario /\ resp.line = <<"a", NL>>

(***************************************************************************)
(* C11: a client line with more than 999 bytes before its newline is cut   *)
(* to the buffer and handled as one query: it gets one response, and what  *)
(* was cut off is never read as a further query.  Every string fgets hands *)
(* to the query loop therefore begins a client line: at the moment a query *)
(* is read, no rest of an earlier line is waiting in the stream.           *)
(***************************************************************************)
C11_LongLineIsOneQuery ==
  [][nqueries' = nqueries + 1 => unread = <<>>]_vars

\* the session is in its query loop: reading, matching or answering
Querying == pc \in {"fgets", "scan", "blank"}

(***************************************************************************)
(* C12: the store is frozen for the lifetime of a session.  Loading is     *)
(* over before the first query line is read; from then until the session   *)
(* is closed the list holds every whole record of the file, in file order, *)
(* and no step changes its count, order or content, so all queries of the  *)
(* session are matched against the same complete store.                    *)
(***************************************************************************)
C12_StoreFrozen ==
  /\ [](nqueries > 0 => pc \notin {"fopen", "fread"})
  /\ [](Querying => /\ recordList = sessionDb.blocks
                    /\ filePos = FileSize(sessionDb))
  /\ [][Querying => recordList' = recordList]_vars

\* the second query of a session is being matched against a store of two
\* records
C12_Witness ==
  /\ pc = "scan"
  /\ nqueries = 2
  /\ Len(recordList) = 2
  /\ currentNode = 2

\* the state of the session state machine the server is in; "Idle" between
\* sessions, "Exited" once the process has ended
Phase ==
  CASE pc = "accept" -> "Idle"
    [] pc \in {"fopen", "fread"} -> "Init"
    [] pc = "fgets" -> "ReadQuery"
    [] pc \in {"scan", "blank"} -> "Respond"
    [] pc = "cleanup" -> "Closed"
    [] OTHER -> "Exited"

SessionTransitions ==
  { <<"Init", "ReadQuery">>, <<"ReadQuery", "Respond">>, <<"Respond", "ReadQuery">>,
    <<"ReadQuery", "Closed">>, <<"Respond", "Closed">> }

\* what the process does around a session: it starts one, returns from one,
\* or exits while it has no session or is setting one up
ProcessTransitions ==
  { <<"Idle", "Init">>, <<"Closed", "Idle">>, <<"Idle", "Exited">>, <<"Init", "Exited">> }

(***************************************************************************)
(* C13: a session moves only along Init -> ReadQuery, ReadQuery ->         *)
(* Respond, Respond -> ReadQuery, ReadQuery -> Closed and Respond ->       *)
(* Closed.  Closed is terminal: the only step from it is the return to the *)
(* accept loop, and lines are read only in ReadQuery and bytes written to  *)
(* a client only in Respond, so nothing is read, written or matched after  *)
(* Closed.  The step from ReadQuery to Closed (end of stream or a read     *)
(* error) writes no response.                                              *)
(***************************************************************************)
C13_SessionStateMachine ==
  /\ [][Phase' # Phase =>
          <<Phase, Phase'>> \in SessionTransitions \cup ProcessTransitions]_vars
  /\ [][nqueries' = nqueries + 1 => Phase = "ReadQuery" /\ Phase' = "Respond"]_vars
  /\ [][Len(resp'.sends) > Len(resp.sends) \/ gotReply' # gotReply =>
          Phase = "Respond"]_vars
  /\ [][Phase = "Closed" =>
          resp' \in {resp, NoResp} /\ currentNode' \in {currentNode, 0}]_vars
  /\ [][Phase = "ReadQuery" /\ Phase' = "Closed" =>
          resp' = resp /\ gotReply' = gotReply]_vars

\* a session that answered two queries has reached Closed at the end of its
\* client's stream
C13_Witness ==
  /\ pc = "cleanup"
  /\ nqueries = 2
  /\ resp.done
  /\ cstate[clientSocket] = "halfclosed"

\* the ways loading the database can fail
LoadFailures == {"fopen", "fread", "malloc"}

(***************************************************************************)
(* C14: when loading the database fails at the start of a session (the     *)
(* file cannot be opened, a read fails other than by end of file, or a     *)
(* record cannot be allocated), the process terminates before any query of *)
(* that session is read or answered: it has exited for good, no line was   *)
(* read and nothing was sent to the client, and no query is ever matched   *)
(* against a store that holds only part of the file.                       *)
(***************************************************************************)
C14_LoadFailureTerminates ==
  /\ [](exitCause \in LoadFailures =>
          /\ pc = "exited"
          /\ nqueries = 0
          /\ resp = NoResp
          /\ ~gotReply[clientSocket])
  /\ [](pc \in {"scan", "blank"} => Len(recordList) = Len(sessionDb.blocks))
  /\ [][pc = "exited" => pc' = "exited" /\ nqueries' = nqueries /\ resp' = resp]_vars

\* the process has exited on a read error with half of the file loaded and
\* a query of the client waiting
C14_Witness ==
  /\ pc = "exited"
  /\ exitCause = "fread"
  /\ Len(recordList) = 1
  /\ Len(sessionDb.blocks) = 2
  /\ pending[clientSocket] > 0

\* the step that takes a session from Closed back to the accept loop
ReturnToAccept == pc = "cleanup" /\ pc' = "accept"

(***************************************************************************)
(* C15: when a session has reached Closed and control is back in the       *)
(* accept loop, whatever ended the session, every record of its store has  *)
(* been freed and its database file handle and its client socket have been *)
(* closed exactly once: both are open when the return to accept closes     *)
(* them, and no other step closes either.  Hence at every accept, after    *)
(* any number of sessions, no record, file handle or socket of a finished  *)
(* session is left.                                                        *)
(***************************************************************************)
C15_SessionResourcesReleased ==
  /\ [](pc = "accept" =>
          heap = 0 /\ recordList = <<>> /\ ~fileOpen /\ openSockets = {})
  /\ [](heap = Len(recordList))
  /\ [][ReturnToAccept =>
          /\ fileOpen /\ ~fileOpen'
          /\ clientSocket \in openSockets /\ clientSocket \notin openSockets'
          /\ heap' = 0]_vars
  /\ [][\/ fileOpen /\ ~fileOpen'
        \/ ~(openSockets \subseteq openSockets')
        \/ heap' < heap
        => ReturnToAccept]_vars

\* the server is back at accept after its second session; both clients were
\* sent results
C15_Witness ==
  /\ pc = "accept"
  /\ clientSocket = 2
  /\ gotReply[1] /\ gotReply[2]

\* the session waits in fgets for a client that is connected, has its send
\* side open, and has sent nothing that is still to be read
ClientQuiet ==
  /\ pc = "fgets"
  /\ cstate[clientSocket] = "open"
  /\ pending[clientSocket] = 0
  /\ unread = <<>>

(***************************************************************************)
(* C16: there is no idle timeout and no cancellation.  A session leaves    *)
(* ReadQuery only when a line has arrived (then it responds), or when the  *)
(* client has closed its send side or the connection (then it closes).     *)
(* While the client stays connected and sends nothing, the server can take *)
(* no step at all: the session does not reach Closed and no other          *)
(* connection is accepted, however many are waiting.                       *)
(***************************************************************************)
C16_NoIdleTimeout ==
  /\ [](ClientQuiet => ~ENABLED Server)
  /\ [][ClientQuiet =>
          pc' = "fgets" /\ clientSocket' = clientSocket /\ openSockets' = openSockets]_vars
  /\ [][pc = "fgets" /\ pc' # "fgets" =>
          \/ /\ pc' \in {"scan", "blank"}
             /\ pending[clientSocket] > 0 \/ unread # <<>>
          \/ /\ pc' = "cleanup"
             /\ cstate[clientSocket] \in {"halfclosed", "gone"}]_vars

\* a client that was answered once stays connected and silent while another
\* connection waits to be accepted
C16_Witness ==
  /\ ClientQuiet
  /\ nqueries = 1
  /\ backlog # <<>>

\* the key the scan uses: the C string in the key buffer
SearchKeyStr == CStr(searchKey)

(***************************************************************************)
(* C17: the search key used for a client line is that line with its        *)
(* trailing newline removed, cut to at most MAX_KEY_LENGTH = 5 characters. *)
(* For every line fgets returns (never more than 999 bytes), with n        *)
(* characters other than the newline, the key is the first min(5, n) of    *)
(* them, and the key never contains a newline.                             *)
(***************************************************************************)
C17_KeyIsLinePrefix ==
  pc \in {"scan", "blank"} =>
    LET q == QueryText(resp.line)
    IN  /\ Len(resp.line) <= QueryLineSize - 1
        /\ SearchKeyStr = Take(q, Min(MAX_KEY_LENGTH, Len(q)))
        /\ Len(SearchKeyStr) <= MAX_KEY_LENGTH
        /\ ~HasNewline(SearchKeyStr)

\* the line "now" with its newline is in hand and the key is "now"
C17_Witness ==
  /\ pc = "scan"
  /\ resp.line = <<"n", "o", "w", NL>>
  /\ SearchKeyStr = <<"n", "o", "w">>

\* the blank line of the query in hand was sent and send() took all of it
SentinelWritten == resp.done /\ Sends[Len(Sends)].res = "ok"

(***************************************************************************)
(* C18: whenever the blank line that ends the results of a query has been  *)
(* written to the client successfully, a complete result line for every    *)
(* record of the store that matches the query was written successfully     *)
(* before it, in load order: the client never gets the blank line after a  *)
(* result set that is incomplete or cut short.                             *)
(***************************************************************************)
C18_SentinelAfterCompleteResults ==
  SentinelWritten =>
    /\ AllOk
    /\ SentData = MatchLines(recordList, 1, SearchKeyStr) \o <<BlankLine>>

(***************************************************************************)
(* C19: for every line the line reader can return, the empty string of a   *)
(* client line that begins with a NUL byte included, the index used to     *)
(* strip the newline, strlen(searchKey) - 1, lies in 0..MAX_KEY_LENGTH,    *)
(* and the strip reads and writes nothing outside the key buffer.          *)
(***************************************************************************)
C19_StripIndexInBounds ==
  pc \in {"scan", "blank"} =>
    /\ LastChar(KeyCopy(searchKey, resp.line)) \in 0..MAX_KEY_LENGTH
    /\ oob = "none"

(***************************************************************************)
(* C20: for every 250-byte block a database file can contain, a block      *)
(* whose name or msg field has no terminator byte included, matching and   *)
(* formatting the record read only bytes of that record's 50-byte name     *)
(* field and 200-byte msg field, and the formatted result line, with its   *)
(* terminator, fits the 1000-byte result buffer.  Stated for the records   *)
(* the scan of the query in hand has matched: the string read from name    *)
(* ends within the record, the string read from msg ends within msg.       *)
(***************************************************************************)
C20_RecordAccessInBounds ==
  pc \in {"scan", "blank"} =>
    \A i \in 1..(currentNode - 1) :
       LET rec == recordList[i]
       IN  /\ Len(NameStr(rec)) + 1 <= NameSize + MsgSize
           /\ Len(MsgStr(rec)) + 1 <= MsgSize
           /\ Len(ResultLine(i, rec)) + 1 <= ResultBufferSize


====
